---- MODULE Spec2Model ----
(***************************************************************************)
(* A model of cosmoHammer/pso/BestFitPositionGenerator.py.                 *)
(*                                                                         *)
(* Every process of a run (one process without mpi, several ranks with     *)
(* mpi) executes generate() on its own generator object, with the same     *)
(* sampler context and hence the same output path prefix.  The three       *)
(* artifacts are shared files; every process has its own handle (file      *)
(* position and user-space write buffer) on a file it has opened.          *)
(*                                                                         *)
(* Files are modelled at the granularity of records (lines).  disk[f] is   *)
(* the content the operating system has received (what survives when the   *)
(* process is interrupted); handle[p][f].buf is what process p has written *)
(* with f.write() and has not flushed yet.                                 *)
(*                                                                         *)
(* Numbers that stand for floating point data (fitness values,             *)
(* coordinates, covariance entries) are abstract tokens: the best particle *)
(* after k snapshots is the token k, particle j of snapshot k is <<k, j>>. *)
(***************************************************************************)
EXTENDS Integers, Sequences, FiniteSets, TLC

\* ------------------------------------------------------------------ bounds
MaxIter == 5          \* maxIter passed to the constructor ranges over 0..MaxIter
MaxParticleArg == 1   \* particleCount passed to the constructor: None or 1..MaxParticleArg
MaxParamCount == 5    \* sampler.paramCount ranges over 1..MaxParamCount
MaxWalkers == 2       \* sampler.nwalkers ranges over 1..MaxWalkers
MaxProcs == 2         \* number of mpi ranks of a distributed run ranges over 2..MaxProcs
MaxParamCountMpi == 2 \* sampler.paramCount of a distributed run ranges over 1..MaxParamCountMpi

\* --------------------------------------------------------------- constants
MIN_PARTICLE_COUNT == 20
WINDOW == 4           \* range(1,5): the number of trailing snapshots collected
None == -1            \* Python's None for the integer valued fields
MASTER == 0           \* the rank of the coordinator
LOG == 1              \* filePrefix + BEST_FILE_NAME
INFO == 2             \* filePrefix + BEST_INFO_FILE_NAME
SWARM == 3            \* filePrefix + "swarm"

Procs == 0..(MaxProcs - 1)
Files == {LOG, INFO, SWARM}
NUL == <<>>           \* a record of zero bytes in a hole of a file

VARIABLES
  maxIter,            \* self.maxIter
  particleCountArg,   \* the constructor's particleCount argument
  mpi,                \* self.mpi
  nprocs,             \* number of processes of the run
  paramCount,         \* sampler.paramCount = len(chain.min)
  nwalkers,           \* sampler.nwalkers
  pc,                 \* pc[p]: position of process p in generate()
  err,                \* err[p]: the exception that ended generate(), "none" if none
  particleCount,      \* self.particleCount of process p, handed to the optimizer
  requested,          \* number of next() calls p made on pso.sample(maxIter)
  produced,           \* number of snapshots pso.sample(maxIter) yielded to p
  i,                  \* the local variable i of generate(), None while unbound
  swarm,              \* the local list swarm
  fswarm,             \* the local list fswarm
  fitArg,             \* the arguments of the CurvatureFitter constructor
  fit,                \* the result of fitter.fit()
  result,             \* the value generate() returned
  disk,               \* disk[f]: records of file f the OS holds
  handle,             \* handle[p][f]: p's file object on f
  opens               \* opens[p][f]: number of open() calls of p on f

vars == <<maxIter, particleCountArg, mpi, nprocs, paramCount, nwalkers, pc, err,
          particleCount, requested, produced, i, swarm, fswarm, fitArg, fit,
          result, disk, handle, opens>>

config == <<maxIter, particleCountArg, mpi, nprocs, paramCount, nwalkers>>

Active == 0..(nprocs - 1)

\* ------------------------------------------------------- numeric helpers
\* numpy.log on 1..16, in millionths, truncated
LnMicro == <<0, 693147, 1098612, 1386294, 1609437, 1791759, 1945910, 2079441,
             2197224, 2302585, 2397895, 2484906, 2564949, 2639057, 2708050, 2772588>>

Micro == 1000000

\* int(MIN_PARTICLE_COUNT + MIN_PARTICLE_COUNT*numpy.log(paramCount)), with round() instead of int()
get_particle_count_round(n) ==
  (MIN_PARTICLE_COUNT * Micro + MIN_PARTICLE_COUNT * LnMicro[n] + (Micro \div 2)) \div Micro

\* int(MIN_PARTICLE_COUNT + MIN_PARTICLE_COUNT*numpy.log(paramCount)): int() truncates
get_particle_count(n) ==
  (MIN_PARTICLE_COUNT * Micro + MIN_PARTICLE_COUNT * LnMicro[n]) \div Micro

\* --------------------------------------------------------- optimizer model
\* pso.isMaster(): the serial optimizer is always authoritative, with mpi rank 0 is
isMaster(p) == p = MASTER

\* pso.gbest after k snapshots: best fitness and best position (paramCount coordinates)
gbest(k) == [fitness |-> k, position |-> [c \in 1..paramCount |-> k]]

\* the k-th element of pso.sample(): the particle set of iteration k (n particles)
Snapshot(k, n) == [j \in 1..n |-> <<k, j>>]

\* pso.sample(maxIter) yields exactly maxIter elements
Exhausted(p) == produced[p] = maxIter

\* distributed evaluation: an iteration completes when all ranks took part in it
AllResultsReturned(p) == \A q \in Active : requested[q] > produced[p]

\* ---------------------------------------------------------------- files
\* a file object that was never opened
closed == [open |-> FALSE, off |-> 0, buf |-> <<>>]

Max(a, b) == IF a >= b THEN a ELSE b

\* the content of a file after recs are written at position off
WriteAt(content, off, recs) ==
  [k \in 1..Max(Len(content), off + Len(recs)) |->
     IF k > off /\ k <= off + Len(recs) THEN recs[k - off]
     ELSE IF k <= Len(content) THEN content[k] ELSE NUL]

\* process p's view of file f: the file's content and p's file object
View(p, f) == [disk |-> disk[f], h |-> handle[p][f]]

\* open(name, "w"): the file is truncated, the position is 0
FOpen(st) == [disk |-> <<>>, h |-> [open |-> TRUE, off |-> 0, buf |-> <<>>]]

\* f.write(...): the records go to the buffer of the file object
FWrite(st, recs) == [st EXCEPT !.h.buf = @ \o recs]

\* f.flush(): the buffer is written at the position of the file object
FFlush(st) ==
  [disk |-> WriteAt(st.disk, st.h.off, st.h.buf),
   h |-> [st.h EXCEPT !.off = @ + Len(st.h.buf), !.buf = <<>>]]

\* leaving the with block: the buffer is flushed and the file closed
FClose(st) == [disk |-> FFlush(st).disk, h |-> [FFlush(st).h EXCEPT !.open = FALSE]]

\* leaving the with block when the buffer cannot be flushed: its records are lost
FCloseLost(st) == [disk |-> st.disk, h |-> [st.h EXCEPT !.open = FALSE, !.buf = <<>>]]

\* the file state st becomes the state of file f as seen by p
Commit(p, f, st) ==
  /\ disk' = [disk EXCEPT ![f] = st.disk]
  /\ handle' = [handle EXCEPT ![p][f] = st.h]

\* the records of recs that reached the file when a write of recs failed
PartialWrites(recs) ==
  {SubSeq(recs, 1, k) : k \in {0, Max(Len(recs) - 1, 0)}}

IsPrefix(s, t) == Len(s) <= Len(t) /\ \A k \in 1..Len(s) : s[k] = t[k]

\* ------------------------------------------------------------ generate()
locals == <<particleCount, requested, produced, i, swarm, fswarm, fitArg, fit, result>>
files == <<disk, handle, opens>>

\* an exception that is recorded while the failed step is tried again
Raise_retry(p, kind) ==
  /\ pc' = pc
  /\ err' = [err EXCEPT ![p] = kind]

\* an exception leaves generate(): nothing in generate() catches it
Raise(p, kind) ==
  /\ pc' = [pc EXCEPT ![p] = "aborted"]
  /\ err' = [err EXCEPT ![p] = kind]

Goto(p, label) ==
  /\ pc' = [pc EXCEPT ![p] = label]
  /\ err' = err

\* "%s\t%f\t" % (i, particle.fitness) followed by the coordinates of the position
LogRecord(idx, particle) == <<idx, particle.fitness>> \o particle.position

\* _save without the isMaster() test: every process appends the record
_save_unguarded(st, idx, p) ==
  FFlush(FWrite(st, <<LogRecord(idx, gbest(produced[p]))>>))

\* _save without f.flush(): the record stays in the buffer
_save_noflush(st, idx, p) ==
  IF isMaster(p)
  THEN FWrite(st, <<LogRecord(idx, gbest(produced[p]))>>)
  ELSE st

\* _save opening the file itself, with mode "w", on every call
_save_reopen(st, idx, p) ==
  IF isMaster(p)
  THEN FFlush(FWrite(FOpen(st), <<LogRecord(idx, gbest(produced[p]))>>))
  ELSE FOpen(st)

\* _save(f, i, pso): the master appends the record of pso.gbest and flushes
_save(st, idx, p) ==
  IF isMaster(p)
  THEN FFlush(FWrite(st, <<LogRecord(idx, gbest(produced[p]))>>))
  ELSE st

\* enumerate(..., 1): the elements numbered from 1
enumerate_from_one(k) == k

\* enumerate(...) numbers the elements of the sequence from 0
enumerate(k) == k - 1

\* lines 65-74: the particle count is derived when not given, the optimizer is built
Configure(p) ==
  /\ pc[p] = "start"
  /\ particleCount' = [particleCount EXCEPT ![p] =
        IF particleCountArg = None THEN get_particle_count(paramCount)
        ELSE particleCountArg]
  /\ Goto(p, "open")
  /\ UNCHANGED <<config, requested, produced, i, swarm, fswarm, fitArg, fit, result, files>>

\* line 77: open(filePrefix + BEST_FILE_NAME, "w")
OpenLog(p) ==
  /\ pc[p] = "open"
  /\ \/ /\ Commit(p, LOG, FOpen(View(p, LOG)))
        /\ opens' = [opens EXCEPT ![p][LOG] = @ + 1]
        /\ Goto(p, "next")
     \/ /\ Raise(p, "io")
        /\ UNCHANGED files
  /\ UNCHANGED <<config, locals>>

\* line 78: the for statement asks pso.sample(maxIter) for its next element
Request(p) ==
  /\ pc[p] = "next"
  /\ ~Exhausted(p)
  /\ requested' = [requested EXCEPT ![p] = @ + 1]
  /\ Goto(p, "wait")
  /\ UNCHANGED <<config, particleCount, produced, i, swarm, fswarm, fitArg, fit, result, files>>

\* line 78: the optimizer yields the snapshot of the iteration, i is bound to its index
Yield(p) ==
  /\ pc[p] = "wait"
  /\ AllResultsReturned(p)
  /\ produced' = [produced EXCEPT ![p] = @ + 1]
  /\ i' = [i EXCEPT ![p] = enumerate(produced'[p])]
  /\ Goto(p, "body")
  /\ UNCHANGED <<config, particleCount, requested, swarm, fswarm, fitArg, fit, result, files>>

\* lines 79-81: the body of the loop
LoopBody(p) ==
  /\ pc[p] = "body"
  /\ \/ /\ Commit(p, LOG, _save(View(p, LOG), i[p], p))
        /\ swarm' = [swarm EXCEPT ![p] = Append(@, Snapshot(i[p], particleCount[p]))]
        /\ Goto(p, "next")
     \/ /\ isMaster(p)
        /\ \E st \in {FClose(View(p, LOG)), FCloseLost(View(p, LOG))} : Commit(p, LOG, st)
        /\ Raise(p, "io")
        /\ UNCHANGED swarm
  /\ UNCHANGED <<config, particleCount, requested, produced, i, fswarm, fitArg, fit, result, opens>>

\* line 78: the sequence is exhausted, the for statement ends
StopIteration(p) ==
  /\ pc[p] = "next"
  /\ Exhausted(p)
  /\ Goto(p, "final")
  /\ UNCHANGED <<config, locals, files>>

\* lines 83-84: the record after the loop, then the with block is left
FinalSave(p) ==
  /\ pc[p] = "final"
  /\ \/ /\ i[p] = None
        /\ Commit(p, LOG, FClose(View(p, LOG)))
        /\ Raise(p, "name")
     \/ /\ i[p] # None
        /\ Commit(p, LOG, FClose(_save(View(p, LOG), i[p] + 1, p)))
        /\ Goto(p, "build")
     \/ /\ i[p] # None
        /\ isMaster(p)
        /\ \E st \in {FClose(View(p, LOG)), FCloseLost(View(p, LOG))} : Commit(p, LOG, st)
        /\ Raise(p, "io")
  /\ UNCHANGED <<config, locals, opens>>

\* swarm[-k] raises IndexError unless the list has k elements
CanIndex(list, k) == k <= Len(list)

\* swarm[-1] + swarm[-2] + swarm[-3] + swarm[-4]
RECURSIVE Collect(_, _)
Collect(list, k) ==
  IF k > WINDOW \/ ~CanIndex(list, k) THEN <<>>
  ELSE list[Len(list) - k + 1] \o Collect(list, k + 1)

\* lines 87-89: the trailing snapshots are concatenated
BuildFswarm(p) ==
  /\ pc[p] = "build"
  /\ IF \A k \in 1..WINDOW : CanIndex(swarm[p], k)
     THEN Goto(p, "sOpen")
     ELSE Raise(p, "index")
  /\ fswarm' = [fswarm EXCEPT ![p] = Collect(swarm[p], 1)]
  /\ UNCHANGED <<config, particleCount, requested, produced, i, swarm, fitArg, fit, result, files>>

\* the line of a particle in the swarm dump: its fitness and its position
SwarmRecord(particle) == particle

\* with open(name, "w") as f: the with block of a store method is entered
StoreOpen(p, f, label) ==
  /\ \/ /\ Commit(p, f, FOpen(View(p, f)))
        /\ opens' = [opens EXCEPT ![p][f] = @ + 1]
        /\ Goto(p, label)
     \/ /\ Raise(p, "io")
        /\ UNCHANGED files
  /\ UNCHANGED <<config, locals>>

\* the f.write() calls of a store method: nothing is flushed
StoreWrite(p, f, recs, label) ==
  /\ \/ /\ Commit(p, f, FWrite(View(p, f), recs))
        /\ Goto(p, label)
     \/ /\ \E part \in PartialWrites(recs) : Commit(p, f, FClose(FWrite(View(p, f), part)))
        /\ Raise(p, "io")
  /\ UNCHANGED <<config, locals, opens>>

\* the with block of a store method is left: the file is flushed and closed
StoreClose(p, f, label) ==
  /\ \/ /\ Commit(p, f, FClose(View(p, f)))
        /\ Goto(p, label)
     \/ /\ Commit(p, f, FCloseLost(View(p, f)))
        /\ Raise(p, "io")
  /\ UNCHANGED <<config, locals, opens>>

\* _storeSwarm(fswarm), line 154
StoreSwarmOpen(p) == pc[p] = "sOpen" /\ StoreOpen(p, SWARM, "sWrite")

\* _storeSwarm(fswarm), lines 155-159
StoreSwarmWrite(p) ==
  /\ pc[p] = "sWrite"
  /\ StoreWrite(p, SWARM, [k \in 1..Len(fswarm[p]) |-> SwarmRecord(fswarm[p][k])], "sClose")

\* _storeSwarm(fswarm), the end of the with block
StoreSwarmClose(p) == pc[p] = "sClose" /\ StoreClose(p, SWARM, "fit")

\* the least number of points that determines a quadratic in d dimensions
MinPoints(d) == ((d + 1) * (d + 2)) \div 2

\* CurvatureFitter.fit(): the mean is the anchor, the covariance is d x d
FitResult(points, anchor) ==
  [ok |-> TRUE,
   mean |-> anchor.position,
   cov |-> [r \in 1..Len(anchor.position) |-> [c \in 1..Len(anchor.position) |-> 0]]]

noFit == [ok |-> FALSE, mean |-> <<>>, cov |-> <<>>]

\* lines 93-94 with the failure of the fit caught and ignored
Fit_swallow(p) ==
  /\ pc[p] = "fit"
  /\ fitArg' = [fitArg EXCEPT ![p] =
        [called |-> TRUE, points |-> fswarm[p], anchor |-> gbest(produced[p])]]
  /\ \/ /\ Len(fswarm[p]) >= MinPoints(paramCount)
        /\ fit' = [fit EXCEPT ![p] = FitResult(fswarm[p], gbest(produced[p]))]
     \/ UNCHANGED fit
  /\ Goto(p, "fOpen")
  /\ UNCHANGED <<config, particleCount, requested, produced, i, swarm, fswarm, result, files>>

\* lines 93-94: CurvatureFitter(fswarm, pso.gbest).fit() returns or raises
Fit(p) ==
  /\ pc[p] = "fit"
  /\ fitArg' = [fitArg EXCEPT ![p] =
        [called |-> TRUE, points |-> fswarm[p], anchor |-> gbest(produced[p])]]
  /\ \/ /\ Len(fswarm[p]) >= MinPoints(paramCount)
        /\ fit' = [fit EXCEPT ![p] = FitResult(fswarm[p], gbest(produced[p]))]
        /\ Goto(p, "fOpen")
     \/ /\ Raise(p, "fit")
        /\ UNCHANGED fit
  /\ UNCHANGED <<config, particleCount, requested, produced, i, swarm, fswarm, result, files>>

\* the lines of the best fit summary: fitness, position, a header, the rows of _cov
InfoRecords(particle, cov) ==
  <<<<particle.fitness>>, particle.position, <<None>>>> \o cov

\* _storeFit(pso.gbest, _cov), line 146
StoreFitOpen(p) == pc[p] = "fOpen" /\ StoreOpen(p, INFO, "fWrite")

\* _storeFit(pso.gbest, _cov), lines 147-151
StoreFitWrite(p) ==
  /\ pc[p] = "fWrite"
  /\ StoreWrite(p, INFO, InfoRecords(gbest(produced[p]), fit[p].cov), "fClose")

\* _storeFit(pso.gbest, _cov), the end of the with block
StoreFitClose(p) == pc[p] = "fClose" /\ StoreClose(p, INFO, "sample")

\* multivariate_normal with the sample matrix transposed
DrawSamples_transposed(mean, cov, n) ==
  [returned |-> TRUE, rows |-> Len(mean), cols |-> n, mean |-> mean, cov |-> cov]

\* numpy.random.multivariate_normal(mean, _cov, n): n rows of len(mean) coordinates
DrawSamples(mean, cov, n) ==
  [returned |-> TRUE, rows |-> n, cols |-> Len(mean), mean |-> mean, cov |-> cov]

noResult == [returned |-> FALSE, rows |-> 0, cols |-> 0, mean |-> <<>>, cov |-> <<>>]

\* lines 107-117: the samples are drawn and returned
Sample(p) ==
  /\ pc[p] = "sample"
  /\ result' = [result EXCEPT ![p] = DrawSamples(fit[p].mean, fit[p].cov, nwalkers)]
  /\ Goto(p, "done")
  /\ UNCHANGED <<config, particleCount, requested, produced, i, swarm, fswarm, fitArg, fit, files>>

\* ------------------------------------------------------------ the system
noArg == [called |-> FALSE, points |-> <<>>, anchor |-> [fitness |-> None, position |-> <<>>]]

\* __init__ and setup: the state of every process before generate() is called
Start ==
  /\ pc = [p \in Procs |-> IF p < nprocs THEN "start" ELSE "off"]
  /\ err = [p \in Procs |-> "none"]
  /\ particleCount = [p \in Procs |-> particleCountArg]
  /\ requested = [p \in Procs |-> 0]
  /\ produced = [p \in Procs |-> 0]
  /\ i = [p \in Procs |-> None]
  /\ swarm = [p \in Procs |-> <<>>]
  /\ fswarm = [p \in Procs |-> <<>>]
  /\ fitArg = [p \in Procs |-> noArg]
  /\ fit = [p \in Procs |-> noFit]
  /\ result = [p \in Procs |-> noResult]
  /\ disk = [f \in Files |-> <<>>]
  /\ handle = [p \in Procs |-> [f \in Files |-> closed]]
  /\ opens = [p \in Procs |-> [f \in Files |-> 0]]

\* a run of one process: the serial optimizer, or the mpi optimizer on a single rank
Init ==
  /\ maxIter \in 0..MaxIter
  /\ particleCountArg \in {None} \cup (1..MaxParticleArg)
  /\ mpi \in BOOLEAN
  /\ nprocs = 1
  /\ paramCount \in 1..MaxParamCount
  /\ nwalkers \in 1..MaxWalkers
  /\ Start

\* a distributed run: every rank calls generate() with the same arguments and context
InitMpi ==
  /\ maxIter \in 0..MaxIter
  /\ particleCountArg \in 1..MaxParticleArg
  /\ mpi = TRUE
  /\ nprocs \in 2..MaxProcs
  /\ paramCount \in 1..MaxParamCountMpi
  /\ nwalkers \in 1..MaxWalkers
  /\ Start

Next ==
  \E p \in Procs :
    \/ Configure(p)
    \/ OpenLog(p)
    \/ Request(p)
    \/ Yield(p)
    \/ LoopBody(p)
    \/ StopIteration(p)
    \/ FinalSave(p)
    \/ BuildFswarm(p)
    \/ StoreSwarmOpen(p)
    \/ StoreSwarmWrite(p)
    \/ StoreSwarmClose(p)
    \/ Fit(p)
    \/ StoreFitOpen(p)
    \/ StoreFitWrite(p)
    \/ StoreFitClose(p)
    \/ Sample(p)

Spec == Init /\ [][Next]_vars

SpecMpi == InitMpi /\ [][Next]_vars

\* ------------------------------------------------------------ properties
InLoop == {"start", "open", "next", "wait", "body", "final"}

\* p has consumed the sequence of the optimizer and left the with block of the log
Consumed(p) == Exhausted(p) /\ pc[p] \notin InLoop

\* the points of the last WINDOW snapshots of a run of maxIter iterations
LastSnapshots(n) == {<<k, j>> : k \in (maxIter - WINDOW)..(maxIter - 1), j \in 1..n}

Range(seq) == {seq[k] : k \in 1..Len(seq)}

\* C1: on the master, once generate() has consumed the sequence of the
\* optimizer (and no I/O error occurred), the iteration log holds exactly
\* maxIter + 1 lines.
C1_LogHasMaxIterPlusOneLines ==
  \A p \in Active :
    (isMaster(p) /\ Consumed(p) /\ err[p] # "io") => Len(disk[LOG]) = maxIter + 1

\* C2: a worker never writes a record to the iteration log, neither in the
\* loop nor after it: its file object stays at position 0 with an empty
\* buffer, and every record of the file was put there by the master.
C2_OnlyMasterWritesLog ==
  /\ \A p \in Active :
       ~isMaster(p) => handle[p][LOG].off = 0 /\ handle[p][LOG].buf = <<>>
  /\ Len(disk[LOG]) = handle[MASTER][LOG].off

\* C2 witness: a worker has run the loop and the save after the loop while
\* the master has written records.
C2_Witness ==
  \E p \in Active :
    /\ ~isMaster(p)
    /\ pc[p] = "build"
    /\ produced[p] >= 1
    /\ Len(disk[LOG]) >= 2

\* C3 as stated: every artifact is opened once and no record that was
\* written is ever left unflushed.
C3_EveryWriteFlushed ==
  \A p \in Active : \A f \in Files :
    opens[p][f] <= 1 /\ handle[p][f].buf = <<>>

\* C3 amended: every artifact is opened at most once (exactly once in a run
\* that returns); the iteration log is flushed after every record, so its
\* records are always durable; the records of the swarm dump and of the
\* best fit summary are unflushed while their file is open and durable only
\* from the close of the file.
C3_LogFlushedOthersOnClose ==
  \A p \in Active :
    /\ \A f \in Files :
         /\ opens[p][f] <= 1
         /\ pc[p] = "done" => opens[p][f] = 1
         /\ handle[p][f].buf # <<>> => handle[p][f].open /\ f # LOG
         /\ (nprocs = 1 /\ ~handle[p][f].open) => Len(disk[f]) = handle[p][f].off
    /\ isMaster(p) => Len(disk[LOG]) = handle[p][LOG].off
    /\ pc[p] = "sClose" => handle[p][SWARM].buf = fswarm[p]
    /\ pc[p] = "fClose" => Len(handle[p][INFO].buf) = 3 + paramCount

\* C3 witness: the log is complete on disk while the records of the swarm
\* dump are written and not yet durable.
C3_Witness ==
  \E p \in Active :
    /\ isMaster(p)
    /\ Len(disk[LOG]) = maxIter + 1
    /\ handle[p][SWARM].buf # <<>>
    /\ disk[SWARM] = <<>>

\* c = round(20 + 20 ln n)
IsRoundOf(c, n) ==
  LET x == MIN_PARTICLE_COUNT * Micro + MIN_PARTICLE_COUNT * LnMicro[n]
  IN 2 * (c * Micro - x) <= Micro /\ 2 * (x - c * Micro) <= Micro

\* c = floor(20 + 20 ln n)
IsFloorOf(c, n) ==
  LET x == MIN_PARTICLE_COUNT * Micro + MIN_PARTICLE_COUNT * LnMicro[n]
  IN c * Micro <= x /\ x < (c + 1) * Micro

\* C4 as stated: without a particle count of the caller the optimizer gets
\* round(20 + 20 ln(paramCount)) particles, at least 20; a given count is
\* passed unchanged.
C4_ParticleCountRounded ==
  \A p \in Active :
    pc[p] # "start" =>
      IF particleCountArg = None
      THEN IsRoundOf(particleCount[p], paramCount) /\ particleCount[p] >= MIN_PARTICLE_COUNT
      ELSE particleCount[p] = particleCountArg

\* C4 amended: without a particle count of the caller the optimizer gets
\* 20 + 20 ln(paramCount) truncated to an integer (rounded down), at least
\* 20, and 52 for paramCount = 5; a given count is passed unchanged.
C4_ParticleCountTruncated ==
  \A p \in Active :
    pc[p] # "start" =>
      IF particleCountArg = None
      THEN /\ IsFloorOf(particleCount[p], paramCount)
           /\ particleCount[p] >= MIN_PARTICLE_COUNT
           /\ paramCount = 5 => particleCount[p] = 52
      ELSE particleCount[p] = particleCountArg

\* C4 witness: the particle count was derived for paramCount = 2, where
\* rounding and truncation differ (33.86...).
C4_Witness ==
  \E p \in Active :
    /\ pc[p] = "next"
    /\ particleCountArg = None
    /\ paramCount = 2
    /\ particleCount[p] = 33

\* C5: when generate() got past the loop and ended without an I/O error,
\* the point cloud written to the swarm dump and handed to the fitter is
\* the particle sets of the last 4 snapshots: 4 x particleCount points,
\* none of an older snapshot.
C5_PointCloudIsLastFourSnapshots ==
  \A p \in Active :
    (pc[p] \in {"done", "aborted"} /\ err[p] \in {"none", "fit", "index"}) =>
      /\ fitArg[p].called
      /\ Len(fitArg[p].points) = WINDOW * particleCount[p]
      /\ Range(fitArg[p].points) = LastSnapshots(particleCount[p])
      /\ handle[p][SWARM].off = WINDOW * particleCount[p]

\* C6: the step at which an I/O error is raised ends generate(): the
\* process is aborted, no value is returned, no pipeline state advances and
\* the records on disk stay; afterwards the process does nothing at all
\* (no retry, no later step).
C6_IOErrorAborts ==
  [][\A p \in Procs :
       /\ (err'[p] = "io" /\ err[p] # "io") =>
            /\ pc'[p] = "aborted"
            /\ ~result'[p].returned
            /\ <<requested[p], produced[p], swarm[p], fswarm[p], fitArg[p], fit[p], opens[p]>>' =
               <<requested[p], produced[p], swarm[p], fswarm[p], fitArg[p], fit[p], opens[p]>>
            /\ \A f \in Files : IsPrefix(disk[f], disk'[f])
       /\ err[p] = "io" =>
            /\ pc'[p] = "aborted" /\ err'[p] = "io"
            /\ ~result'[p].returned
            /\ <<requested[p], produced[p], swarm[p], fswarm[p], fitArg[p], fit[p], opens[p], handle[p]>>' =
               <<requested[p], produced[p], swarm[p], fswarm[p], fitArg[p], fit[p], opens[p], handle[p]>>
    ]_vars

\* C6 witness: generate() was aborted by an I/O error in the swarm dump
\* while the complete iteration log is on disk.
C6_Witness ==
  \E p \in Active :
    /\ err[p] = "io"
    /\ pc[p] = "aborted"
    /\ opens[p][SWARM] = 1
    /\ Len(disk[LOG]) = maxIter + 1

\* C7: a returned sample matrix has nwalkers rows and paramCount columns
\* and was drawn with the mean and the covariance the fitter returned;
\* generate() returns a matrix exactly when it reaches its end.
C7_SampleShape ==
  \A p \in Active :
    /\ result[p].returned <=> pc[p] = "done"
    /\ result[p].returned =>
         /\ result[p].rows = nwalkers
         /\ result[p].cols = paramCount
         /\ fit[p].ok
         /\ result[p].mean = fit[p].mean
         /\ result[p].cov = fit[p].cov

\* C7 witness: generate() returned a matrix whose two dimensions differ.
C7_Witness ==
  \E p \in Active :
    /\ pc[p] = "done"
    /\ result[p].returned
    /\ nwalkers # paramCount

\* C8: the records of the iteration log carry the indices 0, 1, 2, ... in
\* this order, none skipped or repeated, up to maxIter at most; record i of
\* the loop carries the best particle of snapshot i; and the master asks
\* for snapshot i + 1 only when record i is in the file, and writes record
\* i only when snapshot i has been produced.
C8_RecordsInIterationOrder ==
  /\ Len(disk[LOG]) <= maxIter + 1
  /\ \A k \in 1..Len(disk[LOG]) :
       /\ disk[LOG][k][1] = k - 1
       /\ disk[LOG][k][2] = IF k <= maxIter THEN k ELSE maxIter
  /\ requested[MASTER] <= Len(disk[LOG]) + 1
  /\ pc[MASTER] \in {"next", "wait"} => Len(disk[LOG]) = produced[MASTER]
  /\ pc[MASTER] = "body" => Len(disk[LOG]) = produced[MASTER] - 1
  /\ Len(disk[LOG]) <= produced[MASTER] + 1

\* C8 witness: the master is asking for snapshot 2 with records 0 and 1 in
\* the file.
C8_Witness ==
  /\ pc[MASTER] = "wait"
  /\ requested[MASTER] = 3
  /\ Len(disk[LOG]) = 2

\* C9: the fit is attempted only after the process has written and closed
\* the swarm dump; the summary is opened only after the fit returned; a
\* matrix is returned only after the summary is written and closed; after
\* a failure of the fit the log and the swarm dump of the process exist,
\* no summary was opened and nothing is returned.
C9_PipelineOrder ==
  \A p \in Active :
    /\ fitArg[p].called =>
         /\ opens[p][SWARM] = 1
         /\ ~handle[p][SWARM].open
         /\ handle[p][SWARM].off = Len(fswarm[p])
         /\ nprocs = 1 => disk[SWARM] = fswarm[p]
    /\ opens[p][INFO] > 0 => fit[p].ok
    /\ result[p].returned =>
         /\ opens[p][INFO] = 1
         /\ ~handle[p][INFO].open
         /\ handle[p][INFO].off = 3 + paramCount
    /\ err[p] = "fit" =>
         /\ opens[p][LOG] = 1
         /\ isMaster(p) => Len(disk[LOG]) = maxIter + 1
         /\ opens[p][SWARM] = 1
         /\ handle[p][SWARM].off = WINDOW * particleCount[p]
         /\ opens[p][INFO] = 0
         /\ nprocs = 1 => disk[INFO] = <<>>
         /\ ~result[p].returned

\* C9 witness: the fit failed with the swarm dump on disk.
C9_Witness ==
  \E p \in Active :
    /\ err[p] = "fit"
    /\ Len(disk[SWARM]) = WINDOW * particleCount[p]

\* C10: a record that is in the iteration log stays in it, unchanged, at
\* every step of every process: no step, the opening of the file by a
\* worker included, truncates or overwrites it.
C10_LogRecordsStay ==
  [][IsPrefix(disk[LOG], disk'[LOG])]_vars

\* C10 witness: with mpi, a worker has opened the log and the master has
\* written records to it.
C10_Witness ==
  \E p \in Active :
    /\ mpi
    /\ ~isMaster(p)
    /\ opens[p][LOG] = 1
    /\ Len(disk[LOG]) >= 2

====
